---- MODULE Spec2Model ----
(***************************************************************************)
(* Model of pendulum.Period (src/pendulum/period.py): construction and its *)
(* invert / absolute normalisation, negation, abs, the pickling state, and *)
(* the interval algebra _exclude / exclude / exclude_from / intersect /    *)
(* merge_periods.  Points in time are the integers 1..MaxTime (the tests   *)
(* use the day-numbered instants first..fourteenth).                       *)
(*                                                                         *)
(* A Period is the record [start, end, absolute, invert]: the attributes   *)
(* _start, _end, _absolute and _invert that __init__ sets.                 *)
(* Python's None and a raised TypeError are distinct tagged results.       *)
(* frame is the frame of the generator xrange returns: its locals start,  *)
(* i and amount and the place it is suspended at.                         *)
(***************************************************************************)
EXTENDS Integers, Sequences, FiniteSets, TLC

VARIABLES op, self, periods, args, result, frame

vars == <<op, self, periods, args, result, frame>>

\* ------------------------------------------------------------- bounds ----
\* Points in time are 1..MaxTime.
MaxTime == 4
\* Longest argument list of exclude and merge_periods.
MaxPeriods == 3
\* Longest argument list of exclude_from and intersect.
MaxOthers == 2
\* Largest step amount passed to xrange.
MaxAmount == 2

Time == 1..MaxTime

\* -------------------------------------------------------- result values --
None == [tag |-> "None"]
TypeError == [tag |-> "TypeError"]
List(s) == [tag |-> "list", val |-> s]
Obj(p) == [tag |-> "Period", val |-> p]
NoArgs == [start |-> 0, end |-> 0, absolute |-> FALSE]
NoPeriod == [start |-> 0, end |-> 0, absolute |-> FALSE, invert |-> FALSE]
NoFrame == [pc |-> "none", start |-> 0, i |-> 0, amount |-> 0]

max(a, b) == IF a >= b THEN a ELSE b
min(a, b) == IF a <= b THEN a ELSE b

\* --------------------------------------------------------- construction --
\* Period.__init__: _invert is set whenever start > end, before the swap
\* that absolute = True performs, and is not reset by the swap.
__init__NoSwap(start, end, absolute) ==
    [start |-> start, end |-> end,
     absolute |-> absolute, invert |-> start > end]

__init__(start, end, absolute) ==
    LET _invert == start > end
        swap == _invert /\ absolute
    IN [start |-> IF swap THEN end ELSE start,
        end |-> IF swap THEN start ELSE end,
        absolute |-> absolute,
        invert |-> _invert]

\* Period(start=..., end=...): absolute takes its default, False.
Period(start, end) == __init__(start, end, FALSE)

\* Period.__neg__
__neg__DropAbsolute(p) == __init__(p.end, p.start, FALSE)

__neg__(p) == __init__(p.end, p.start, p.absolute)

\* Period.__abs__
__abs__(p) == __init__(p.start, p.end, TRUE)

\* Period._getstate: the (start, end, absolute) triple handed to the class
\* by __reduce_ex__.
_getstateNoSwap(p) ==
    [start |-> p.start, end |-> p.end, absolute |-> p.absolute]

_getstate(p) ==
    LET swap == p.invert /\ p.absolute
    IN [start |-> IF swap THEN p.end ELSE p.start,
        end |-> IF swap THEN p.start ELSE p.end,
        absolute |-> p.absolute]

\* Period.__reduce_ex__ followed by the call of the class on the state.
Reconstruct(state) == __init__(state.start, state.end, state.absolute)

\* ------------------------------------------------------------ input sets --
AllPeriods == {__init__(s, e, a) : s \in Time, e \in Time, a \in BOOLEAN}
PlainPeriods == {Period(s, e) : s \in Time, e \in Time}
ForwardPeriods == {p \in PlainPeriods : p.start <= p.end}

RECURSIVE SeqsUpTo(_, _)
SeqsUpTo(S, n) ==
    IF n = 0 THEN {<<>>}
    ELSE LET shorter == SeqsUpTo(S, n - 1)
         IN shorter \cup {Append(s, x) : s \in {t \in shorter : Len(t) = n - 1}, x \in S}

\* ---------------------------------------------------------- _exclude -----
\* Period._exclude: what remains of this period once other is removed;
\* None when nothing remains.
_excludeStrictStart(this, other) ==
    IF other.end > this.start
    THEN IF other.start < this.start
         THEN IF other.end < this.end
              THEN List(<<Period(other.end, this.end)>>)
              ELSE None
         ELSE IF other.start < this.end
              THEN IF other.end < this.end
                   THEN List(<<Period(this.start, other.start),
                               Period(other.end, this.end)>>)
                   ELSE List(<<Period(this.start, other.start)>>)
              ELSE List(<<this>>)
    ELSE List(<<this>>)

_exclude(this, other) ==
    IF other.end > this.start
    THEN IF other.start <= this.start
         THEN IF other.end < this.end
              THEN List(<<Period(other.end, this.end)>>)
              ELSE None
         ELSE IF other.start < this.end
              THEN IF other.end < this.end
                   THEN List(<<Period(this.start, other.start),
                               Period(other.end, this.end)>>)
                   ELSE List(<<Period(this.start, other.start)>>)
              ELSE List(<<this>>)
    ELSE List(<<this>>)

\* ------------------------------------------------------- exclude_from ----
\* The loop of exclude_from from index i on, all_excluded_periods = acc.
RECURSIVE exclude_from_loop(_, _, _, _)
exclude_from_loop(this, ps, i, acc) ==
    IF i > Len(ps) THEN acc
    ELSE LET excluded_periods == _exclude(ps[i], this)
         IN IF excluded_periods # None
            THEN exclude_from_loop(this, ps, i + 1, acc \o excluded_periods.val)
            ELSE exclude_from_loop(this, ps, i + 1, acc)

RECURSIVE exclude_from_break_loop(_, _, _, _)
exclude_from_break_loop(this, ps, i, acc) ==
    IF i > Len(ps) THEN acc
    ELSE LET excluded_periods == _exclude(ps[i], this)
         IN IF excluded_periods # None
            THEN exclude_from_break_loop(this, ps, i + 1, acc \o excluded_periods.val)
            ELSE acc

exclude_from_break(this, ps) == List(exclude_from_break_loop(this, ps, 1, <<>>))

exclude_from(this, ps) == List(exclude_from_loop(this, ps, 1, <<>>))

\* ------------------------------------------------------------ exclude ----
\* Period.exclude.  The recursion's result is used as `... or []`, which
\* turns None and the empty list into no elements; iterating over the None
\* that _exclude returned raises TypeError, which propagates.
RECURSIVE exclude(_, _)
RECURSIVE exclude_extend(_, _, _, _)
exclude_extend(excluded_periods, remaining_periods, i, acc) ==
    IF i > Len(excluded_periods) THEN List(acc)
    ELSE LET r == exclude(excluded_periods[i], remaining_periods)
         IN IF r = TypeError THEN TypeError
            ELSE exclude_extend(excluded_periods, remaining_periods, i + 1,
                                IF r = None THEN acc ELSE acc \o r.val)

exclude(this, ps) ==
    IF ps = <<>> THEN List(<<this>>)
    ELSE LET period == Head(ps)
             remaining_periods == Tail(ps)
             excluded_periods == _exclude(this, period)
         IN IF remaining_periods = <<>> THEN excluded_periods
            ELSE IF excluded_periods = None THEN TypeError
            ELSE exclude_extend(excluded_periods.val, remaining_periods, 1, <<>>)

\* ---------------------------------------------------------- intersect ----
\* The loop of intersect from index i on; w = [start, end, has_intersection].
RECURSIVE intersect_loop(_, _, _)
intersect_loop(ps, i, w) ==
    IF i > Len(ps) THEN w
    ELSE LET period == ps[i]
         IN IF period.end < w.start \/ period.start > w.end
            THEN intersect_loop(ps, i + 1, w)
            ELSE intersect_loop(ps, i + 1,
                    [start |-> max(w.start, period.start),
                     end |-> min(w.end, period.end),
                     has_intersection |-> TRUE])

intersect(this, ps) ==
    LET w == intersect_loop(ps, 1, [start |-> this.start, end |-> this.end,
                                    has_intersection |-> FALSE])
    IN IF ~w.has_intersection THEN None
       ELSE Obj(Period(w.start, w.end))

\* ------------------------------------------------------ merge_periods ----
\* Period.__lt__
__lt__(a, b) == IF a.start = b.start THEN a.end < b.end ELSE a.start < b.start

\* list.sort(): a stable sort that compares with __lt__ only.
RECURSIVE insert(_, _)
insert(sorted, p) ==
    IF sorted = <<>> THEN <<p>>
    ELSE LET last == sorted[Len(sorted)]
         IN IF __lt__(p, last)
            THEN Append(insert(SubSeq(sorted, 1, Len(sorted) - 1), p), last)
            ELSE Append(sorted, p)

RECURSIVE sort(_)
sort(ps) ==
    IF ps = <<>> THEN <<>>
    ELSE insert(sort(SubSeq(ps, 1, Len(ps) - 1)), ps[Len(ps)])

\* The scan of merge_periods over the sorted list from index i on.
RECURSIVE merge_loop(_, _, _, _)
merge_loop(ps, i, period, merged_periods) ==
    IF i > Len(ps) THEN Append(merged_periods, period)
    ELSE LET next_period == ps[i]
         IN IF next_period.start <= period.end
            THEN IF next_period.end > period.end
                 THEN merge_loop(ps, i + 1,
                                 Period(period.start, next_period.end),
                                 merged_periods)
                 ELSE merge_loop(ps, i + 1, period, merged_periods)
            ELSE merge_loop(ps, i + 1, next_period,
                            Append(merged_periods, period))

RECURSIVE merge_loop_no_flush(_, _, _, _)
merge_loop_no_flush(ps, i, period, merged_periods) ==
    IF i > Len(ps) THEN merged_periods
    ELSE LET next_period == ps[i]
         IN IF next_period.start <= period.end
            THEN IF next_period.end > period.end
                 THEN merge_loop_no_flush(ps, i + 1,
                                 Period(period.start, next_period.end),
                                 merged_periods)
                 ELSE merge_loop_no_flush(ps, i + 1, period, merged_periods)
            ELSE merge_loop_no_flush(ps, i + 1, next_period,
                            Append(merged_periods, period))

merge_periods_no_flush(ps) ==
    IF Len(ps) = 0 THEN <<>>
    ELSE LET sorted == sort(ps)
         IN merge_loop_no_flush(sorted, 2, sorted[1], <<>>)

merge_periods(ps) ==
    IF Len(ps) = 0 THEN <<>>
    ELSE LET sorted == sort(ps)
         IN merge_loop(sorted, 2, sorted[1], <<>>)

\* ------------------------------------------------------------- xrange ----
\* The direction xrange steps in: 'subtract' and operator.ge when the period
\* is inverted and not absolute, 'add' and operator.le otherwise.
Backward(p) == ~p.absolute /\ p.invert

\* op(start, end), the condition of the while loop.
xrange_opStrict(p, start, end) ==
    IF Backward(p) THEN start > end ELSE start < end

xrange_op(p, start, end) ==
    IF Backward(p) THEN start >= end ELSE start <= end

\* getattr(self.start, method)(**{unit: i}), in units of the step.
xrange_step(p, i) ==
    IF Backward(p) THEN p.start - i ELSE p.start + i

\* The values yielded so far; of a generator that never stops the first
\* MaxTime + 1 are kept.
Yielded(vals, v) ==
    IF Len(vals) > MaxTime THEN vals ELSE Append(vals, v)

Amounts == 0..MaxAmount

\* ------------------------------------------------------------- actions ---
Init ==
    /\ op = "none"
    /\ self = NoPeriod
    /\ periods = <<>>
    /\ args = NoArgs
    /\ result = None
    /\ frame = NoFrame

\* Period(start, end, absolute)
Construct ==
    /\ op = "none"
    /\ \E s \in Time, e \in Time, a \in BOOLEAN :
        /\ op' = "__init__"
        /\ self' = NoPeriod
        /\ periods' = <<>>
        /\ args' = [start |-> s, end |-> e, absolute |-> a]
        /\ result' = Obj(__init__(s, e, a))
        /\ frame' = NoFrame

\* -p
Negate ==
    /\ op = "none"
    /\ \E p \in AllPeriods :
        /\ op' = "__neg__"
        /\ self' = p
        /\ periods' = <<>>
        /\ args' = [start |-> p.end, end |-> p.start, absolute |-> p.absolute]
        /\ result' = Obj(__neg__(p))
        /\ frame' = NoFrame

\* abs(p)
Abs ==
    /\ op = "none"
    /\ \E p \in AllPeriods :
        /\ op' = "__abs__"
        /\ self' = p
        /\ periods' = <<>>
        /\ args' = [start |-> p.start, end |-> p.end, absolute |-> TRUE]
        /\ result' = Obj(__abs__(p))
        /\ frame' = NoFrame

\* p.__reduce__() and the reconstruction from the state it returns
Reduce ==
    /\ op = "none"
    /\ \E p \in AllPeriods :
        /\ op' = "__reduce__"
        /\ self' = p
        /\ periods' = <<>>
        /\ args' = _getstate(p)
        /\ result' = Obj(Reconstruct(_getstate(p)))
        /\ frame' = NoFrame

\* this._exclude(other)
Exclude1 ==
    /\ op = "none"
    /\ \E this \in AllPeriods, other \in PlainPeriods :
        /\ op' = "_exclude"
        /\ self' = this
        /\ periods' = <<other>>
        /\ args' = NoArgs
        /\ result' = _exclude(this, other)
        /\ frame' = NoFrame

\* self.exclude(*periods)
Exclude ==
    /\ op = "none"
    /\ \E this \in ForwardPeriods, ps \in SeqsUpTo(ForwardPeriods, MaxPeriods) :
        /\ op' = "exclude"
        /\ self' = this
        /\ periods' = ps
        /\ args' = NoArgs
        /\ result' = exclude(this, ps)
        /\ frame' = NoFrame

\* self.exclude_from(*periods)
ExcludeFrom ==
    /\ op = "none"
    /\ \E this \in AllPeriods, ps \in SeqsUpTo(ForwardPeriods, MaxOthers) :
        /\ op' = "exclude_from"
        /\ self' = this
        /\ periods' = ps
        /\ args' = NoArgs
        /\ result' = exclude_from(this, ps)
        /\ frame' = NoFrame

\* self.intersect(*periods)
Intersect ==
    /\ op = "none"
    /\ \E this \in AllPeriods, ps \in SeqsUpTo(ForwardPeriods, MaxOthers) :
        /\ op' = "intersect"
        /\ self' = this
        /\ periods' = ps
        /\ args' = NoArgs
        /\ result' = intersect(this, ps)
        /\ frame' = NoFrame

\* Period.merge_periods(*periods)
Merge ==
    /\ op = "none"
    /\ \E ps \in SeqsUpTo(PlainPeriods, MaxPeriods) :
        /\ op' = "merge_periods"
        /\ self' = NoPeriod
        /\ periods' = ps
        /\ args' = NoArgs
        /\ result' = List(merge_periods(ps))
        /\ frame' = NoFrame

\* self.xrange(unit, amount): the generator is created, suspended before
\* its first test of the loop condition.
Xrange ==
    /\ op = "none"
    /\ \E p \in AllPeriods, amount \in Amounts :
        /\ op' = "xrange"
        /\ self' = p
        /\ periods' = <<>>
        /\ args' = NoArgs
        /\ result' = List(<<>>)
        /\ frame' = [pc |-> "while", start |-> p.start, i |-> amount,
                     amount |-> amount]

\* while op(start, end)
XrangeWhile ==
    /\ op = "xrange"
    /\ frame.pc = "while"
    /\ frame' = [frame EXCEPT !.pc = IF xrange_op(self, frame.start, self.end)
                                     THEN "yield" ELSE "done"]
    /\ UNCHANGED <<op, self, periods, args, result>>

\* yield start; start = self.start.add/subtract(i); i += amount
XrangeYield ==
    /\ op = "xrange"
    /\ frame.pc = "yield"
    /\ result' = List(Yielded(result.val, frame.start))
    /\ frame' = [frame EXCEPT !.pc = "while",
                              !.start = xrange_step(self, frame.i),
                              !.i = frame.i + frame.amount]
    /\ UNCHANGED <<op, self, periods, args>>

\* The call returns; the next call starts from fresh arguments.  range()
\* consumes the generator of xrange to its end.
Return ==
    /\ op # "none"
    /\ op = "xrange" => frame.pc = "done"
    /\ op' = "none"
    /\ self' = NoPeriod
    /\ periods' = <<>>
    /\ args' = NoArgs
    /\ result' = None
    /\ frame' = NoFrame

Next ==
    \/ Construct
    \/ Negate
    \/ Abs
    \/ Reduce
    \/ Exclude1
    \/ Exclude
    \/ ExcludeFrom
    \/ Intersect
    \/ Merge
    \/ Xrange
    \/ XrangeWhile
    \/ XrangeYield
    \/ Return

Spec == Init /\ [][Next]_vars

\* range(unit, amount) alone: list() keeps resuming the generator as long as
\* it has a step to take.
NextRange ==
    \/ Xrange
    \/ XrangeWhile
    \/ XrangeYield
    \/ Return

SpecRange ==
    /\ Init
    /\ [][NextRange]_vars
    /\ WF_vars(XrangeWhile)
    /\ WF_vars(XrangeYield)

TypeOK ==
    /\ op \in {"none", "__init__", "__neg__", "__abs__", "__reduce__",
               "_exclude", "exclude", "exclude_from", "intersect",
               "merge_periods", "xrange"}
    /\ result.tag \in {"None", "TypeError", "list", "Period"}

\* ============================================================ claims =====
Forward(p) == p.start <= p.end
Fresh(s, e) == [start |-> s, end |-> e, absolute |-> FALSE, invert |-> FALSE]

\* Chronological bounds and span of a period; the span is the set of unit
\* steps [k, k+1] between its earlier and its later endpoint.
Lo(p) == min(p.start, p.end)
Hi(p) == max(p.start, p.end)
Cells(p) == {k \in Time : Lo(p) <= k /\ k < Hi(p)}
Points(p) == {k \in Time : Lo(p) <= k /\ k <= Hi(p)}
CellsOf(ps) == UNION {Cells(ps[i]) : i \in DOMAIN ps}
PointsOf(ps) == UNION {Points(ps[i]) : i \in DOMAIN ps}
StartEnd(ps) == [i \in DOMAIN ps |-> <<ps[i].start, ps[i].end>>]

\* ---- C1 ----
\* What remains of the forward period p after removing the forward period e,
\* by the cases of the claim in the order it lists them.
RemainderAsListed(p, e) ==
    IF e.end <= p.start \/ e.start >= p.end THEN <<p>>
    ELSE IF e.start <= p.start /\ e.end >= p.end THEN <<>>
    ELSE IF e.start <= p.start THEN <<Fresh(e.end, p.end)>>
    ELSE IF e.end >= p.end THEN <<Fresh(p.start, e.start)>>
    ELSE <<Fresh(p.start, e.start), Fresh(e.end, p.end)>>

RECURSIVE RemaindersAsListed(_, _)
RemaindersAsListed(ps, e) ==
    IF ps = <<>> THEN <<>>
    ELSE RemainderAsListed(Head(ps), e) \o RemaindersAsListed(Tail(ps), e)

\* The same with a zero-length p on the start of e counted as covered by e
\* (e.start <= p.start < e.end) rather than as touched by it.
Remainder(p, e) ==
    IF e.end <= p.start \/ (e.start >= p.end /\ e.start > p.start) THEN <<p>>
    ELSE IF e.start <= p.start /\ e.end >= p.end THEN <<>>
    ELSE IF e.start <= p.start THEN <<Fresh(e.end, p.end)>>
    ELSE IF e.end >= p.end THEN <<Fresh(p.start, e.start)>>
    ELSE <<Fresh(p.start, e.start), Fresh(e.end, p.end)>>

RECURSIVE Remainders(_, _)
Remainders(ps, e) ==
    IF ps = <<>> THEN <<>>
    ELSE Remainder(Head(ps), e) \o Remainders(Tail(ps), e)

ForwardCall ==
    /\ op = "exclude_from"
    /\ Forward(self)
    /\ \A i \in DOMAIN periods : Forward(periods[i])

\* C1 as stated: for forward periods p1..pn and a forward exclusion e,
\* e.exclude_from(p1, ..., pn) is a list, never None, equal to the
\* concatenation in input order of what remains of each pi after removing e
\* from it alone: pi when e does not overlap pi or only touches it at an
\* endpoint, nothing when e covers pi, one piece when e covers one end of
\* pi, two pieces when e lies strictly inside pi.
C1_ExcludeFromConcatenates ==
    ForwardCall
    => /\ result.tag = "list"
       /\ result.val = RemaindersAsListed(periods, self)

\* C1 amended: the same, except that a zero-length pi lying on the start of
\* a non-empty e (e.start = pi.start = pi.end < e.end) counts as covered by
\* e and contributes nothing, while a zero-length pi lying on the end of e
\* is kept.
C1_ExcludeFromRemainders ==
    ForwardCall
    => /\ result.tag = "list"
       /\ result.val = Remainders(periods, self)

\* An exclusion covering the first period and strictly inside the second:
\* the first contributes nothing, the second two pieces.
C1_Witness ==
    /\ ForwardCall
    /\ Len(periods) = 2
    /\ self.start <= periods[1].start /\ periods[1].end <= self.end
    /\ periods[1].start < periods[1].end
    /\ periods[2].start < self.start /\ self.end < periods[2].end
    /\ result.tag = "list"
    /\ Len(result.val) = 2

\* ---- C2 ----
\* C2: exclude never fails and always returns a sequence of periods, and
\* with no periods to exclude the result is [self].
C2_ExcludeAlwaysReturnsList ==
    op = "exclude"
    => /\ result.tag = "list"
       /\ (periods = <<>> => result.val = <<self>>)

\* ---- C3 ----
Remaining(r) == IF r.tag = "list" THEN r.val ELSE <<>>

\* C3: for any p and other, forward or inverted, the spans of the periods
\* p._exclude(other) returns, together with the common span of p and other,
\* make up exactly the span of p, and the returned periods overlap neither
\* each other nor the span of other.
C3_ExclusionComplete ==
    op = "_exclude"
    => LET other == periods[1]
           rem == Remaining(result)
       IN /\ result.tag \in {"list", "None"}
          /\ CellsOf(rem) \cup (Cells(self) \cap Cells(other)) = Cells(self)
          /\ \A i \in DOMAIN rem : Cells(rem[i]) \cap Cells(other) = {}
          /\ \A i, j \in DOMAIN rem :
                i # j => Cells(rem[i]) \cap Cells(rem[j]) = {}

\* ---- C4 ----
\* The narrowing the claim describes: any period disjoint from the running
\* window makes the whole intersection fail.
RECURSIVE Narrow(_, _, _)
Narrow(ps, i, w) ==
    IF i > Len(ps) THEN w
    ELSE IF ~w.ok \/ ps[i].end < w.start \/ ps[i].start > w.end
         THEN [start |-> w.start, end |-> w.end, ok |-> FALSE]
         ELSE Narrow(ps, i + 1, [start |-> max(w.start, ps[i].start),
                                 end |-> min(w.end, ps[i].end),
                                 ok |-> TRUE])

\* C4: self.intersect(*others) is None whenever some period of others is
\* disjoint from the running window, and otherwise the Period from the
\* latest start to the earliest end of self and others.
C4_IntersectFailsOnAnyDisjoint ==
    op = "intersect"
    => LET w == Narrow(periods, 1, [start |-> self.start, end |-> self.end,
                                    ok |-> TRUE])
       IN IF ~w.ok THEN result = None
          ELSE /\ result.tag = "Period"
               /\ result.val.start = w.start
               /\ result.val.end = w.end

\* ---- C5 ----
SameWindow(r1, r2) ==
    \/ r1 = None /\ r2 = None
    \/ /\ r1.tag = "Period" /\ r2.tag = "Period"
       /\ r1.val.start = r2.val.start
       /\ r1.val.end = r2.val.end

\* C5: a.intersect(b) and b.intersect(a) agree, and a.intersect(b, c) and
\* a.intersect(c, b) agree: both None or the same (start, end).
C5_IntersectOrderIndependent ==
    /\ (op = "intersect" /\ Len(periods) = 1)
         => SameWindow(result, intersect(periods[1], <<self>>))
    /\ (op = "intersect" /\ Len(periods) = 2)
         => SameWindow(result, intersect(self, <<periods[2], periods[1]>>))

\* ---- C6 ----
\* C6: the periods merge_periods returns cover exactly the union of the
\* spans of the inputs, no two of them overlap or touch, and the result is
\* empty exactly when the input is.
C6_MergeCoversUnion ==
    op = "merge_periods"
    => LET out == result.val
       IN /\ CellsOf(out) = CellsOf(periods)
          /\ PointsOf(out) = PointsOf(periods)
          /\ \A i, j \in DOMAIN out :
                i # j => Points(out[i]) \cap Points(out[j]) = {}
          /\ (out = <<>>) <=> (periods = <<>>)

\* ---- C7 ----
\* C7: merging the output of merge_periods again returns the same
\* (start, end) pairs in the same order.
C7_MergeIdempotent ==
    op = "merge_periods"
    => StartEnd(merge_periods(result.val)) = StartEnd(result.val)

\* Overlapping inputs, given out of order, that merge into two periods.
C7_Witness ==
    /\ op = "merge_periods"
    /\ Len(periods) = 3
    /\ Len(result.val) = 2
    /\ periods[1].start > periods[2].start
    /\ \E i \in DOMAIN periods : ~Forward(periods[i])

\* ---- C8 ----
Constructed == op \in {"__init__", "__neg__", "__abs__"}

\* C8 as stated: every Period constructed with absolute = true has
\* invert = false and start <= end, and a Period constructed with
\* start == end has invert = false.
C8_AbsoluteNeverInverted ==
    Constructed
    => /\ (result.val.absolute
             => ~result.val.invert /\ result.val.start <= result.val.end)
       /\ (args.start = args.end => ~result.val.invert)

\* C8 amended: every Period constructed with absolute = true has
\* start <= end, whatever the order of the endpoints supplied; invert
\* records whether the supplied start was later than the supplied end, also
\* when absolute swapped them; with start == end invert is false.
C8_AbsoluteOrdered ==
    Constructed
    => /\ result.val.absolute = args.absolute
       /\ (result.val.absolute => result.val.start <= result.val.end)
       /\ result.val.invert = (args.start > args.end)
       /\ (args.start = args.end => ~result.val.invert)

\* An absolute period built from endpoints in reverse order.
C8_Witness ==
    /\ Constructed
    /\ args.absolute
    /\ args.start > args.end
    /\ result.val.start < result.val.end

\* ---- C9 ----
\* C9: the Period constructed from the triple p._getstate() returns has the
\* same start, end, absolute and invert as p.
C9_RoundTrip ==
    op = "__reduce__"
    => /\ result.tag = "Period"
       /\ result.val.start = self.start
       /\ result.val.end = self.end
       /\ result.val.absolute = self.absolute
       /\ result.val.invert = self.invert

\* An absolute period whose endpoints were swapped at construction.
C9_Witness ==
    /\ op = "__reduce__"
    /\ self.absolute
    /\ self.invert
    /\ args.start > args.end

\* ---- C10 ----
\* C10 as stated: -p has start = p.end, end = p.start and the absolute flag
\* of p, and -(-p) has the same start, end, absolute and invert as p.
C10_NegationSwaps ==
    op = "__neg__"
    => /\ result.val.start = self.end
       /\ result.val.end = self.start
       /\ result.val.absolute = self.absolute
       /\ __neg__(result.val) = self

\* C10 amended: -p keeps the absolute flag of p; when p is not absolute -p
\* has start = p.end and end = p.start and -(-p) has the same start, end,
\* absolute and invert as p; when p is absolute -p and -(-p) have the same
\* start, end and absolute as p.
C10_NegationByAbsolute ==
    op = "__neg__"
    => LET n == result.val
           nn == __neg__(n)
       IN /\ n.absolute = self.absolute
          /\ ~self.absolute
               => /\ n.start = self.end
                  /\ n.end = self.start
                  /\ nn = self
          /\ self.absolute
               => /\ n.start = self.start /\ n.end = self.end
                  /\ nn.start = self.start /\ nn.end = self.end
                  /\ nn.absolute

\* The negation of an absolute period of non-zero length.
C10_Witness ==
    /\ op = "__neg__"
    /\ self.absolute
    /\ self.start < self.end
    /\ result.val.start = self.start

\* ---- C11 ----
\* The k-th value of start, start + amount, start + 2*amount, ...,
\* subtracting when the period is inverted and not absolute.
Value(p, amount, k) ==
    IF ~p.absolute /\ p.invert
    THEN p.start - (k - 1) * amount
    ELSE p.start + (k - 1) * amount

\* v is not beyond end: v <= end forward, v >= end backward.
UpToEnd(p, v) ==
    IF ~p.absolute /\ p.invert THEN v >= p.end ELSE v <= p.end

Finished == op = "xrange" /\ frame.pc = "done"

\* The values produced so far are start, start + amount, ... in that order,
\* none beyond end; once the iteration has ended the first value is start and
\* the next value of the progression is beyond end.
ValuesExact ==
    LET vals == result.val
    IN /\ \A k \in DOMAIN vals :
            /\ vals[k] = Value(self, frame.amount, k)
            /\ UpToEnd(self, vals[k])
       /\ Finished
            => /\ Len(vals) >= 1
               /\ vals[1] = self.start
               /\ ~UpToEnd(self, Value(self, frame.amount, Len(vals) + 1))

\* C11 as stated: for every Period and every step amount the iteration ends
\* after finitely many values, which are exactly start, start + amount, ...
\* up to end, the first being start.
C11_RangeTerminates ==
    /\ [](op = "xrange" => ValuesExact)
    /\ (op = "xrange") ~> Finished

\* C11 amended: the same for every step amount >= 1; with amount = 0 the
\* iteration yields start again and again and never ends.
C11_RangeTerminatesPositive ==
    /\ [](op = "xrange" => ValuesExact)
    /\ (op = "xrange" /\ frame.amount >= 1) ~> Finished

\* A backward iteration in steps of two that has ended after two values.
C11_Witness ==
    /\ Finished
    /\ ~self.absolute /\ self.invert
    /\ frame.amount = 2
    /\ Len(result.val) = 2
    /\ result.val[2] = self.start - 2

\* ---- C12 ----
ForwardPair ==
    /\ op = "_exclude"
    /\ Forward(self)
    /\ Forward(periods[1])

\* The cases of the claim other than 'unchanged', and the clause on boundary
\* touches: a remainder is this itself, returned as it was, or a piece of
\* positive width.
ExcludeCases(this, other) ==
    /\ (other.start <= this.start /\ other.end >= this.end
            /\ other.end > this.start)
         => result = None
    /\ (other.start <= this.start /\ this.start < other.end
            /\ other.end < this.end)
         => result = List(<<Fresh(other.end, this.end)>>)
    /\ (this.start < other.start /\ other.start < this.end
            /\ this.end <= other.end)
         => result = List(<<Fresh(this.start, other.start)>>)
    /\ (this.start < other.start /\ other.end < this.end)
         => result = List(<<Fresh(this.start, other.start),
                            Fresh(other.end, this.end)>>)
    /\ (other.start = this.start \/ other.end = this.end)
         => \A k \in DOMAIN Remaining(result) :
               \/ Remaining(result)[k].start < Remaining(result)[k].end
               \/ Remaining(result)[k] = this

\* C12 as stated: for forward this and other, this._exclude(other) is [this]
\* when other.end <= this.start or other.start >= this.end, nothing when
\* other covers this, the piece after other, the piece before other, or
\* both pieces in that order, by the position of other; a boundary touch
\* never produces a zero-width remainder.
C12_ExcludeCases ==
    ForwardPair
    => LET this == self
           other == periods[1]
       IN /\ (other.end <= this.start \/ other.start >= this.end)
               => result = List(<<this>>)
          /\ ExcludeCases(this, other)

\* C12 amended: this is returned unchanged when other.end <= this.start, or
\* when other.start >= this.end and other.start > this.start: a zero-length
\* this lying on the start of a non-empty other is covered by it and leaves
\* nothing; the other cases and the clause on boundary touches (a
\* zero-length this returned unchanged aside) stand.
C12_ExcludeCasesZeroLength ==
    ForwardPair
    => LET this == self
           other == periods[1]
       IN /\ (other.end <= this.start
                \/ (other.start >= this.end /\ other.start > this.start))
               => result = List(<<this>>)
          /\ ExcludeCases(this, other)

\* other starts where this starts and ends inside it: one piece of positive
\* width remains.
C12_Witness ==
    /\ ForwardPair
    /\ periods[1].start = self.start
    /\ self.start < periods[1].end
    /\ periods[1].end < self.end
    /\ result = List(<<Fresh(periods[1].end, self.end)>>)

====
